---- MODULE Spec2Model ----
(***************************************************************************)
(* Model of src/js/scrubImageSequence.js: scroll-synchronised canvas       *)
(* image-sequence playback.  The page (the [scrub-wrapper] sections and    *)
(* their [frames-play] blocks) is the input; the browser delivers image    *)
(* load/error events, timer expiries, animation ticks, scroll updates and  *)
(* media-query changes in any order.                                       *)
(***************************************************************************)
EXTENDS Integers, Sequences, FiniteSets

\* ---- bounds of the checked documents ----
MaxFrames == 2        \* largest data-framecount of a section
NumSections == 2      \* most [scrub-wrapper] sections on a page
MaxPageFrames == 3    \* most frames of all the sections of a page together
MaxBlocks == 1        \* most [frames-play] blocks in a section
MaxPasses == 2        \* most runs of initSections (script load + breakpoint crossings)
ProgressSteps == 2    \* resolution of an animation's progress (0..ProgressSteps)
MaxScrollUpdates == 2 \* most scroll-driven updates followed per block
MaxUrlIndex == 120    \* frame indices over which the URL numbering is checked

\* ---- program constants ----
Breakpoint == 768     \* line 19 / line 170
PadLen == 3           \* line 50
ScrollTop == 1        \* line 101

Blank == -1           \* a cleared canvas (no frame drawn)

VARIABLES
    pc,                     \* "load" before the script ran, "run" after
    page,                   \* the document: sequence of section configurations
    viewportWidth,          \* line 2
    mq,                     \* the media query that currently matches: "min" or "max"
    passes,                 \* number of initSections runs so far
    globalImagesRemaining,  \* line 6
    totalImagesCount,       \* line 7
    loaders,                \* one record per initCanvas call (closure state)
    shown,                  \* per section: the frame its canvas shows, or Blank
    box,                    \* current client box of the canvases' parent elements
    canvasBox,              \* per section: canvas.width / canvas.height
    timers,                 \* pending setTimeout callbacks of line 34
    resizeCalls,            \* calls of lenis.resize so far
    threw                   \* names of the exceptions that escaped a handler

vars == <<pc, page, viewportWidth, mq, passes, globalImagesRemaining,
          totalImagesCount, loaders, shown, box, canvasBox, timers,
          resizeCalls, threw>>

\* ------------------------------------------------------------------------
\* The document: sections (lines 11-16) and their blocks (lines 85-96)
\* ------------------------------------------------------------------------

\* A [frames-play] block: data-start, data-end, data-autoplay-sequence.
\* The blocks checked have start < end (a positive playback length).
Blocks(n) ==
    { [start |-> s, end |-> e, autoplay |-> a] :
        s \in 0..1, e \in {n, n + 1}, a \in BOOLEAN }

BlockLists(n) ==
    UNION { [1..k -> {b \in Blocks(n) : b.start < b.end}] : k \in 0..MaxBlocks }

\* A [scrub-wrapper] section: its canvas (present or not), data-prefix and
\* data-suffix ("" when the attribute is missing), data-framecount as a
\* number (0 when missing or zero: both are falsy at line 17), its blocks.
SectionConfigs ==
    UNION { { [canvas |-> c, prefix |-> p, suffix |-> x, frames |-> n, blocks |-> bl] :
                c \in BOOLEAN, p \in {"", "/img/"}, x \in {"", ".jpg"},
                bl \in BlockLists(n) } : n \in 0..MaxFrames }

RECURSIVE SumFrames(_, _)
SumFrames(p, s) == IF s > Len(p) THEN 0 ELSE p[s].frames + SumFrames(p, s + 1)

\* The checked pages: a single section with up to MaxBlocks playback
\* blocks, or up to NumSections sections without playback blocks and with
\* up to MaxPageFrames frames together.
Pages ==
    { << c >> : c \in SectionConfigs } \cup
    { p \in UNION { [1..k -> { c \in SectionConfigs : c.blocks = << >> }] :
                      k \in 2..NumSections } :
        SumFrames(p, 1) <= MaxPageFrames }

\* Mutant of SectionValid: the suffix is not required
SectionValidWithoutSuffix(cfg) ==
    cfg.canvas /\ cfg.prefix # "" /\ cfg.frames # 0

\* line 17: if (!canvas || !prefix || !suffix || !frames) return;
SectionValid(cfg) ==
    cfg.canvas /\ cfg.prefix # "" /\ cfg.suffix # "" /\ cfg.frames # 0

\* Mutant of Device: the variant follows the media query whose callback is
\* running (the one in mq at script load, the other one on a crossing)
DeviceOfMatchingQuery(w) ==
    IF (pc = "load") = (mq = "min") THEN "desktop" ELSE "mobile"

\* line 19
Device(w) == IF w >= Breakpoint THEN "desktop" ELSE "mobile"

\* ------------------------------------------------------------------------
\* URL generation (lines 49-50)
\* ------------------------------------------------------------------------

\* Number.prototype.toString: the decimal digits of n >= 0, most significant first
RECURSIVE ToString(_)
ToString(n) == IF n < 10 THEN << n >> ELSE Append(ToString(n \div 10), n % 10)

\* String.prototype.padStart(len, "0") on a digit string
RECURSIVE PadStart(_, _)
PadStart(s, len) == IF Len(s) >= len THEN s ELSE PadStart(<< 0 >> \o s, len)

\* currentFrame(index): the URL as its four parts
CurrentFrame(prefix, device, suffix, index) ==
    [prefix |-> prefix, device |-> device,
     num |-> PadStart(ToString(index + 1), PadLen), suffix |-> suffix]

\* ------------------------------------------------------------------------
\* render (lines 152-167)
\* ------------------------------------------------------------------------

\* images is the loader's array (0-based in the source, 1-based here); an
\* image is [src, state] with state "pending", "loaded" or "broken".
\* Line 153 reads images[sequence.frame]; line 154 clears the canvas; line
\* 158 reads img.width, a TypeError when img is undefined; line 166 draws:
\* a loaded image is drawn, an image still loading draws nothing, and for
\* a broken image the platform either throws InvalidStateError (thr) or
\* draws nothing.
Render(images, frame, thr) ==
    IF frame \notin 0..(Len(images) - 1)
    THEN [shown |-> Blank, err |-> "TypeError"]
    ELSE LET st == images[frame + 1].state IN
         IF st = "loaded" THEN [shown |-> frame, err |-> "none"]
         ELSE IF st = "broken" /\ thr
              THEN [shown |-> Blank, err |-> "InvalidStateError"]
              ELSE [shown |-> Blank, err |-> "none"]

\* ------------------------------------------------------------------------
\* initCanvasAnimations (lines 81-149)
\* ------------------------------------------------------------------------

\* A linear ("none") ease from `from` to `to` at progress p of ProgressSteps,
\* snapped to an integer by snap: "frame" (Math.round: half rounds up).
SnapFrame(from, to, p) ==
    (2 * (from * ProgressSteps + (to - from) * p) + ProgressSteps)
        \div (2 * ProgressSteps)

\* Mutant of AtTop: the comparison is inverted
AtTopInverted(y) == y >= ScrollTop

\* line 101
AtTop(y) == y <= ScrollTop

\* Lines 87-136 for one block b with window.scrollY = y: the block's
\* blockSequence ({frame: 0} at line 93) and what binds it.  r is the
\* result so far [blocks, shown, err].  A block's record keeps the
\* scrollY read at line 101 (0 for a block that does not reach that line)
\* and the number of renders made for it.
BlockSequence(b, y, mode, frame, renders) ==
    [start |-> b.start, end |-> b.end, autoplay |-> b.autoplay, scrollY |-> y,
     mode |-> mode, frame |-> frame, progress |-> 0, renders |-> renders]

BindBlock(b, images, r, y, thr) ==
    IF b.autoplay
    THEN IF AtTop(y)
         THEN \* lines 103-110: gsap.to, first update on a later tick
              [r EXCEPT !.blocks = Append(@, BlockSequence(b, y, "tween", 0, 0))]
         ELSE \* lines 113-114
              LET d == Render(images, b.end - 1, thr) IN
              [blocks |-> Append(r.blocks, BlockSequence(b, y, "final", b.end - 1, 1)),
               shown |-> d.shown, err |-> d.err]
    ELSE \* lines 118-135: fromTo sets the from-value at once, updates follow scroll
         [r EXCEPT !.blocks = Append(@, BlockSequence(b, 0, "scroll", b.start - 1, 0))]

\* blocks.forEach (line 86): an exception ends the loop
RECURSIVE BindBlocks(_, _, _, _, _, _)
BindBlocks(cfgBlocks, j, images, r, y, thr) ==
    IF j > Len(cfgBlocks) \/ r.err # "none" THEN r
    ELSE BindBlocks(cfgBlocks, j + 1, images,
                    BindBlock(cfgBlocks[j], images, r, y, thr), y, thr)

\* The whole of initCanvasAnimations: bind the blocks, render the default
\* frame (line 140), register the resize listener (line 143).
InitCanvasAnimations(cfgBlocks, images, sh, y, thr) ==
    LET r == BindBlocks(cfgBlocks, 1, images,
                        [blocks |-> << >>, shown |-> sh, err |-> "none"], y, thr) IN
    IF r.err # "none"
    THEN [blocks |-> r.blocks, shown |-> r.shown, err |-> r.err, listener |-> FALSE]
    ELSE LET d == Render(images, 0, thr) IN
         [blocks |-> r.blocks, shown |-> d.shown, err |-> d.err,
          listener |-> (d.err = "none")]

\* ------------------------------------------------------------------------
\* initCanvas (lines 42-78) and initSections (lines 10-25)
\* ------------------------------------------------------------------------

\* The client boxes a canvas parent takes
Boxes == { [width |-> 800, height |-> 600], [width |-> 400, height |-> 300] }

\* Mutant of LoopIndices: the loop runs to i <= frameCount
LoopIndicesInclusive(frameCount) == 0..frameCount

\* line 54: for (let i = 0; i < frameCount; i++)
LoopIndices(frameCount) == 0..(frameCount - 1)

\* Lines 48-77: the closure state of one initCanvas call.  Every image is
\* created with its handlers, given its src (the request) and pushed.
\* firstFrame counts the renders of line 62, ready the calls of
\* initCanvasAnimations, firstAtReady keeps firstFrame as it was at that call.
InitCanvas(sec, cfg, device, pass) ==
    [section |-> sec, pass |-> pass, frameCount |-> cfg.frames, device |-> device,
     images |-> [j \in 1..Cardinality(LoopIndices(cfg.frames)) |->
                    [src |-> CurrentFrame(cfg.prefix, device, cfg.suffix, j - 1),
                     state |-> "pending"]],
     imagesLoaded |-> 0, firstFrame |-> 0, ready |-> 0, firstAtReady |-> 0,
     blocks |-> << >>, listener |-> FALSE]

\* Mutant of InitSectionsFrom: the remaining counter is assigned, not added to
RECURSIVE InitSectionsAssigning(_, _, _)
InitSectionsAssigning(s, g, pass) ==
    IF s > Len(page) THEN g
    ELSE IF ~SectionValid(page[s]) THEN InitSectionsAssigning(s + 1, g, pass)
    ELSE InitSectionsAssigning(s + 1,
            [total |-> g.total + page[s].frames,
             remaining |-> page[s].frames,
             loaders |-> Append(g.loaders,
                 InitCanvas(s, page[s], Device(viewportWidth), pass)),
             shown |-> [g.shown EXCEPT ![s] = Blank],
             canvasBox |-> [g.canvasBox EXCEPT ![s] = box]],
            pass)

\* sections.forEach (lines 12-24) from section s on; g is the state so far
\* [total, remaining, loaders, shown, canvasBox].  Lines 45-46 size the
\* canvas to its parent, which also clears it.
RECURSIVE InitSectionsFrom(_, _, _)
InitSectionsFrom(s, g, pass) ==
    IF s > Len(page) THEN g
    ELSE IF ~SectionValid(page[s]) THEN InitSectionsFrom(s + 1, g, pass)
    ELSE InitSectionsFrom(s + 1,
            [total |-> g.total + page[s].frames,
             remaining |-> g.remaining + page[s].frames,
             loaders |-> Append(g.loaders,
                 InitCanvas(s, page[s], Device(viewportWidth), pass)),
             shown |-> [g.shown EXCEPT ![s] = Blank],
             canvasBox |-> [g.canvasBox EXCEPT ![s] = box]],
            pass)

\* initSections as a step of the program
InitSections ==
    LET g == InitSectionsFrom(1,
                [total |-> totalImagesCount, remaining |-> globalImagesRemaining,
                 loaders |-> loaders, shown |-> shown, canvasBox |-> canvasBox],
                passes + 1) IN
    /\ totalImagesCount' = g.total
    /\ globalImagesRemaining' = g.remaining
    /\ loaders' = g.loaders
    /\ shown' = g.shown
    /\ canvasBox' = g.canvasBox
    /\ passes' = passes + 1

\* ------------------------------------------------------------------------
\* The state after lines 1-7
\* ------------------------------------------------------------------------

NoBox == [width |-> 0, height |-> 0]

Init ==
    /\ pc = "load"
    /\ page \in Pages
    /\ viewportWidth \in {Breakpoint - 1, Breakpoint}
    /\ mq = IF viewportWidth >= Breakpoint THEN "min" ELSE "max"
    /\ passes = 0
    /\ globalImagesRemaining = 0
    /\ totalImagesCount = 0
    /\ loaders = << >>
    /\ shown = [s \in 1..Len(page) |-> Blank]
    /\ box = [width |-> 800, height |-> 600]
    /\ canvasBox = [s \in 1..Len(page) |-> NoBox]
    /\ timers = 0
    /\ resizeCalls = 0
    /\ threw = {}

\* Lines 170-175 at script load: the query that matches runs its callback.
ScriptLoad ==
    /\ pc = "load"
    /\ pc' = "run"
    /\ InitSections
    /\ UNCHANGED <<page, viewportWidth, mq, box, timers, resizeCalls, threw>>

\* The viewport crosses the breakpoint: the other query starts to match and
\* its callback (line 171 or line 174) runs initSections again.
BreakpointCross ==
    /\ pc = "run"
    /\ passes < MaxPasses
    /\ mq' = IF mq = "min" THEN "max" ELSE "min"
    /\ InitSections
    /\ UNCHANGED <<pc, page, viewportWidth, box, timers, resizeCalls, threw>>

\* ------------------------------------------------------------------------
\* updateGlobalImageCount (lines 28-38) and the image handlers (lines 57-74)
\* ------------------------------------------------------------------------

\* Mutant of UpdateGlobalImageCount: zero is tested before the decrement
UpdateTestsBeforeDecrement(rem, tm) ==
    [remaining |-> rem - 1, timers |-> IF rem = 0 THEN tm + 1 ELSE tm]

\* Lines 29-37 on the counter rem with tm timers pending (updatedPercent
\* is computed and dropped).
UpdateGlobalImageCount(rem, tm) ==
    [remaining |-> rem - 1, timers |-> IF rem - 1 = 0 THEN tm + 1 ELSE tm]

\* Mutant of WhenAllLoaded: ready waits for the global counter to reach 0
WhenAllLoadedGlobally(l, sh, y, thr) ==
    IF l.imagesLoaded = l.frameCount /\ globalImagesRemaining - 1 = 0
    THEN LET a == InitCanvasAnimations(page[l.section].blocks, l.images, sh, y, thr) IN
         [ldr |-> [l EXCEPT !.ready = @ + 1, !.firstAtReady = l.firstFrame,
                            !.blocks = a.blocks, !.listener = a.listener],
          shown |-> a.shown, err |-> a.err]
    ELSE [ldr |-> l, shown |-> sh, err |-> "none"]

\* Lines 64-66 / 71-73 for loader record l whose canvas shows sh: the call
\* of initCanvasAnimations when the count reaches frameCount.
WhenAllLoaded(l, sh, y, thr) ==
    IF l.imagesLoaded = l.frameCount
    THEN LET a == InitCanvasAnimations(page[l.section].blocks, l.images, sh, y, thr) IN
         [ldr |-> [l EXCEPT !.ready = @ + 1, !.firstAtReady = l.firstFrame,
                            !.blocks = a.blocks, !.listener = a.listener],
          shown |-> a.shown, err |-> a.err]
    ELSE [ldr |-> l, shown |-> sh, err |-> "none"]

\* Mutant of IsFirstFrame: the first frame is taken to be index 1
IsFrameOne(i) == i = 1

\* line 61
IsFirstFrame(i) == i = 0

\* Mutant of OnLoad: the count is tested (lines 64-66) before the first
\* frame is rendered (lines 61-63)
OnLoadReadyFirst(k, i, y, thr) ==
    LET l0 == loaders[k]
        l1 == [l0 EXCEPT !.images[i + 1].state = "loaded", !.imagesLoaded = @ + 1]
        h == WhenAllLoaded(l1, shown[l0.section], y, thr)
    IN  IF IsFirstFrame(i) /\ h.err = "none"
        THEN LET d == Render(l1.images, 0, thr) IN
             [ldr |-> [h.ldr EXCEPT !.firstFrame = @ + 1], shown |-> d.shown,
              err |-> d.err]
        ELSE h

\* img.onload (lines 57-67) of image i of loader k
OnLoad(k, i, y, thr) ==
    LET l0 == loaders[k]
        l1 == [l0 EXCEPT !.images[i + 1].state = "loaded", !.imagesLoaded = @ + 1]
        sh == shown[l0.section]
    IN  IF IsFirstFrame(i)
        THEN LET d == Render(l1.images, 0, thr)
                 l2 == [l1 EXCEPT !.firstFrame = @ + 1] IN
             IF d.err # "none" THEN [ldr |-> l2, shown |-> d.shown, err |-> d.err]
             ELSE WhenAllLoaded(l2, d.shown, y, thr)
        ELSE WhenAllLoaded(l1, sh, y, thr)

\* Mutant of OnError: the failure is not counted
OnErrorUncounted(k, i, y, thr) ==
    LET l0 == loaders[k]
        l1 == [l0 EXCEPT !.images[i + 1].state = "broken"]
    IN  WhenAllLoaded(l1, shown[l0.section], y, thr)

\* img.onerror (lines 68-74) of image i of loader k
OnError(k, i, y, thr) ==
    LET l0 == loaders[k]
        l1 == [l0 EXCEPT !.images[i + 1].state = "broken", !.imagesLoaded = @ + 1]
    IN  WhenAllLoaded(l1, shown[l0.section], y, thr)

\* window.scrollY as initCanvasAnimations may read it (line 101), for the
\* handler that takes loader record l to its full count; other handlers do
\* not read it.
ScrollYs(l) ==
    IF l.imagesLoaded + 1 = l.frameCount
          /\ \E j \in 1..Len(page[l.section].blocks) : page[l.section].blocks[j].autoplay
    THEN {0, 1, 50} ELSE {0}

\* Whether drawImage throws for a broken image, for a handler that draws one
DrawThrows(images) ==
    IF \E j \in 1..Len(images) : images[j].state = "broken" THEN BOOLEAN ELSE {FALSE}

Threw(err) == IF err = "none" THEN threw ELSE threw \cup {err}

\* The effect of a load or error handler with result h
Settled(k, h) ==
    LET u == UpdateGlobalImageCount(globalImagesRemaining, timers) IN
    /\ globalImagesRemaining' = u.remaining
    /\ timers' = u.timers
    /\ loaders' = [loaders EXCEPT ![k] = h.ldr]
    /\ shown' = [shown EXCEPT ![h.ldr.section] = h.shown]
    /\ threw' = Threw(h.err)
    /\ UNCHANGED <<pc, page, viewportWidth, mq, passes, totalImagesCount, box,
                   canvasBox, resizeCalls>>

Pending(k, i) ==
    /\ k \in 1..Len(loaders)
    /\ i \in 0..(Len(loaders[k].images) - 1)
    /\ loaders[k].images[i + 1].state = "pending"

\* Image i of loader k finishes loading.
ImgLoad ==
    \E k \in 1..Len(loaders) : \E i \in 0..MaxFrames :
        /\ Pending(k, i)
        /\ \E y \in ScrollYs(loaders[k]) : \E thr \in DrawThrows(loaders[k].images) :
               Settled(k, OnLoad(k, i, y, thr))

\* Image i of loader k fails to load.
ImgError ==
    \E k \in 1..Len(loaders) : \E i \in 0..MaxFrames :
        /\ Pending(k, i)
        /\ \E y \in ScrollYs(loaders[k]) : \E thr \in BOOLEAN :
               Settled(k, OnError(k, i, y, thr))

\* A 500 ms timer of line 34 expires: lenis.resize() (line 35).
TimerFire ==
    /\ timers > 0
    /\ timers' = timers - 1
    /\ resizeCalls' = resizeCalls + 1
    /\ UNCHANGED <<pc, page, viewportWidth, mq, passes, globalImagesRemaining,
                   totalImagesCount, loaders, shown, box, canvasBox, threw>>

\* ------------------------------------------------------------------------
\* Animation updates (lines 109, 120) and the resize listener (lines 143-148)
\* ------------------------------------------------------------------------

\* onUpdate of a block: render(images, blockSequence, context, canvas)
Updated(k, b, blk) ==
    \E thr \in DrawThrows(loaders[k].images) :
        LET d == Render(loaders[k].images, blk.frame, thr) IN
        /\ loaders' = [loaders EXCEPT ![k].blocks[b] = blk]
        /\ shown' = [shown EXCEPT ![loaders[k].section] = d.shown]
        /\ threw' = Threw(d.err)
        /\ UNCHANGED <<pc, page, viewportWidth, mq, passes, globalImagesRemaining,
                       totalImagesCount, box, canvasBox, timers, resizeCalls>>

\* Mutant of TweenFrame: the tween runs over the block's length end - start
TweenFrameOverLength(blk, p) == SnapFrame(0, blk.end - blk.start, p)

\* The autoplay tween of lines 103-110 at progress p: frame from 0 to end - 1
TweenFrame(blk, p) == SnapFrame(0, blk.end - 1, p)

\* The timeline of lines 130-135 at progress p: frame from start - 1 to end - 1
ScrubFrame(blk, p) == SnapFrame(blk.start - 1, blk.end - 1, p)

\* A tick of an autoplay tween: time has advanced, the frame is set and
\* onUpdate runs; at full progress the tween is complete.
TweenTick ==
    \E k \in 1..Len(loaders) : \E b \in 1..MaxBlocks : \E p \in 1..ProgressSteps :
        /\ b <= Len(loaders[k].blocks)
        /\ loaders[k].blocks[b].mode = "tween"
        /\ p > loaders[k].blocks[b].progress
        /\ Updated(k, b, [loaders[k].blocks[b] EXCEPT
                !.progress = p,
                !.frame = TweenFrame(loaders[k].blocks[b], p),
                !.renders = @ + 1,
                !.mode = IF p = ProgressSteps THEN "done" ELSE "tween"])

\* Scroll moves a scroll-linked block's timeline to progress p.
ScrollUpdate ==
    \E k \in 1..Len(loaders) : \E b \in 1..MaxBlocks : \E p \in 0..ProgressSteps :
        /\ b <= Len(loaders[k].blocks)
        /\ loaders[k].blocks[b].mode = "scroll"
        /\ loaders[k].blocks[b].renders < MaxScrollUpdates
        /\ Updated(k, b, [loaders[k].blocks[b] EXCEPT
                !.progress = p,
                !.frame = ScrubFrame(loaders[k].blocks[b], p),
                !.renders = @ + 1])

\* The listeners of line 143 run in registration order from loader k on;
\* g is [shown, canvasBox, threw].  An exception in one listener does not
\* keep the others from running.
RECURSIVE ResizeFrom(_, _, _, _)
ResizeFrom(k, g, newBox, thr) ==
    IF k > Len(loaders) THEN g
    ELSE IF ~loaders[k].listener THEN ResizeFrom(k + 1, g, newBox, thr)
    ELSE LET d == Render(loaders[k].images, 0, thr)
             s == loaders[k].section IN
         ResizeFrom(k + 1,
            [shown |-> [g.shown EXCEPT ![s] = d.shown],
             canvasBox |-> [g.canvasBox EXCEPT ![s] = newBox],
             threw |-> IF d.err = "none" THEN g.threw ELSE g.threw \cup {d.err}],
            newBox, thr)

\* The window is resized: the parents take a new box, the listeners run.
WindowResize ==
    \E newBox \in Boxes : \E thr \in BOOLEAN :
        LET g == ResizeFrom(1, [shown |-> shown, canvasBox |-> canvasBox,
                                threw |-> threw], newBox, thr) IN
        /\ pc = "run"
        /\ box' = newBox
        /\ shown' = g.shown
        /\ canvasBox' = g.canvasBox
        /\ threw' = g.threw
        /\ UNCHANGED <<pc, page, viewportWidth, mq, passes, globalImagesRemaining,
                       totalImagesCount, loaders, timers, resizeCalls>>

Next ==
    \/ ScriptLoad
    \/ BreakpointCross
    \/ ImgLoad
    \/ ImgError
    \/ TimerFire
    \/ TweenTick
    \/ ScrollUpdate

Spec == Init /\ [][Next]_vars

\* The program with window resize events delivered as well, on the pages
\* of one section that lacks nothing, while no resize crosses the breakpoint
NextResize ==
    \/ ScriptLoad
    \/ ImgLoad
    \/ ImgError
    \/ TimerFire
    \/ TweenTick
    \/ ScrollUpdate
    \/ WindowResize

InitResize == Init /\ Len(page) = 1 /\ SectionValid(page[1])

SpecResize == InitResize /\ [][NextResize]_vars

\* ------------------------------------------------------------------------
\* Properties
\* ------------------------------------------------------------------------

\* Number of images of loader record l whose load or error event has fired
SettledCount(l) ==
    Cardinality({ j \in 1..Len(l.images) : l.images[j].state # "pending" })

RECURSIVE SettledFrom(_)
SettledFrom(k) ==
    IF k > Len(loaders) THEN 0 ELSE SettledCount(loaders[k]) + SettledFrom(k + 1)

\* A section that lacks a canvas, a prefix, a suffix or a non-zero frame count
Lacks(cfg) ==
    \/ ~cfg.canvas
    \/ cfg.prefix = ""
    \/ cfg.suffix = ""
    \/ cfg.frames = 0

\* Sum of the frame counts of the sections of the page that lack nothing
RECURSIVE PageFrames(_)
PageFrames(s) ==
    IF s > Len(page) THEN 0
    ELSE (IF Lacks(page[s]) THEN 0 ELSE page[s].frames) + PageFrames(s + 1)

\* C1: for every Loader instance with N >= 1 frames, under every order and
\* mix of load and error completions, the loaded-count equals the number of
\* completions (an error counts as a load does) and initCanvasAnimations has
\* been called once if all N images have settled and not at all before.
ReadyExactlyOnceAtLast ==
    \A k \in 1..Len(loaders) :
        LET l == loaders[k] IN
        l.frameCount >= 1 =>
            /\ l.imagesLoaded = SettledCount(l)
            /\ l.ready = IF SettledCount(l) = l.frameCount THEN 1 ELSE 0

\* C1 witness: a loader of two frames, one loaded and one failed, is ready
ReadyAfterMixedCompletions ==
    \E k \in 1..Len(loaders) :
        /\ loaders[k].frameCount = 2
        /\ loaders[k].ready = 1
        /\ \E i, j \in 1..2 : /\ loaders[k].images[i].state = "loaded"
                              /\ loaders[k].images[j].state = "broken"

\* C2: in a single initialization pass over sections whose frame counts sum
\* to T >= 1, the remaining counter is T less the number of completions (so
\* it is 0 after the T-th completion and not before), and the resize
\* notification has been scheduled (pending or fired) once when all T have
\* completed and not at all before.
SinglePassCountsDown ==
    (passes = 1 /\ PageFrames(1) >= 1) =>
        /\ globalImagesRemaining = PageFrames(1) - SettledFrom(1)
        /\ timers + resizeCalls = IF SettledFrom(1) = PageFrames(1) THEN 1 ELSE 0
        /\ resizeCalls <= 1

\* C2 witness: two sections initialized in one pass, every image settled,
\* the notification fired
TwoSectionsAllSettledResized ==
    /\ passes = 1
    /\ Len(loaders) = 2
    /\ SettledFrom(1) = PageFrames(1)
    /\ globalImagesRemaining = 0
    /\ resizeCalls = 1
    /\ timers = 0

\* C3 as stated: over the page's lifetime, re-runs of initSections
\* included, the remaining counter reaches zero once (one notification is
\* scheduled) and the resize notification fires at most once.
ResizeNotifiedAtMostOnce ==
    timers + resizeCalls <= 1

\* C4 as stated: for every Loader instance whose N images have all settled,
\* the first-frame render has happened exactly once.
FirstFrameOnceWhenAllSettled ==
    \A k \in 1..Len(loaders) :
        (loaders[k].frameCount >= 1 /\ SettledCount(loaders[k]) = loaders[k].frameCount)
            => loaders[k].firstFrame = 1

\* C4 amended: for every Loader instance the first-frame render happens at
\* most once, never before the index-0 image has settled, and exactly once
\* if and only if the index-0 image has loaded successfully (never when it
\* failed).
FirstFrameOnceIffIndex0Loaded ==
    \A k \in 1..Len(loaders) :
        loaders[k].frameCount >= 1 =>
            loaders[k].firstFrame =
                IF loaders[k].images[1].state = "loaded" THEN 1 ELSE 0

\* C4 witness: index 0 loaded while another image of the loader is pending,
\* and the first frame has been rendered
FirstFrameBeforeOthers ==
    \E k \in 1..Len(loaders) :
        /\ loaders[k].frameCount = 2
        /\ loaders[k].images[1].state = "loaded"
        /\ loaders[k].images[2].state = "pending"
        /\ loaders[k].firstFrame = 1
        /\ shown[loaders[k].section] = 0

\* A block of some loader that has been rendered at least once
RenderedBlocks ==
    { kb \in (1..Len(loaders)) \X (1..MaxBlocks) :
        /\ kb[2] <= Len(loaders[kb[1]].blocks)
        /\ loaders[kb[1]].blocks[kb[2]].renders >= 1 }

\* C5 as stated, for the frame indices with no entry in the frame set: the
\* render operation does not throw (no TypeError escapes a handler).
RenderNeverThrows ==
    "TypeError" \notin threw

\* C6 as stated: for every Playback Block, autoplay or scroll-linked, and
\* every start/end pair, the frame value passed to render is an integer in
\* [0, frame count - 1].
FrameAlwaysValidIndex ==
    \A kb \in RenderedBlocks :
        loaders[kb[1]].blocks[kb[2]].frame \in 0..(loaders[kb[1]].frameCount - 1)

\* The number a digit string denotes
RECURSIVE DigitsValue(_)
DigitsValue(d) ==
    IF Len(d) = 0 THEN 0 ELSE 10 * DigitsValue(SubSeq(d, 1, Len(d) - 1)) + d[Len(d)]

\* C7: every Loader holds exactly N images, created before any completion
\* can fire ready, the image at 0-based index i requesting the section's
\* prefix, a device variant, the number i + 1 written in 3 digits, and the
\* section's suffix; the numbering is 3 digits wide up to 999 (index 0 is
\* 001, index 99 is 100).
RequestsInIndexOrder ==
    /\ \A k \in 1..Len(loaders) :
          LET l == loaders[k] IN
          /\ Len(l.images) = l.frameCount
          /\ \A i \in 0..(l.frameCount - 1) :
                LET u == l.images[i + 1].src IN
                /\ u.prefix = page[l.section].prefix
                /\ u.suffix = page[l.section].suffix
                /\ u.device \in {"desktop", "mobile"}
                /\ Len(u.num) = 3
                /\ DigitsValue(u.num) = i + 1
    /\ pc = "load" =>
          /\ \A i \in 0..(MaxUrlIndex - 1) :
                LET u == CurrentFrame("/img/", "desktop", ".jpg", i) IN
                /\ Len(u.num) = 3
                /\ DigitsValue(u.num) = i + 1
          /\ CurrentFrame("/img/", "desktop", ".jpg", 0).num = << 0, 0, 1 >>
          /\ CurrentFrame("/img/", "desktop", ".jpg", 99).num = << 1, 0, 0 >>

\* C7 witness: a loader of two frames is ready, its two requests in order
TwoRequestsThenReady ==
    \E k \in 1..Len(loaders) :
        /\ loaders[k].frameCount = 2
        /\ loaders[k].ready = 1
        /\ loaders[k].images[1].src.num = << 0, 0, 1 >>
        /\ loaders[k].images[2].src.num = << 0, 0, 2 >>

\* C8: a section that lacks a canvas, a prefix, a suffix or a non-zero
\* frame count adds nothing to totalImagesCount or globalImagesRemaining,
\* gets no Loader (no image request, no binding), and every other section
\* of the page gets one Loader in every pass.
LackingSectionsSkipped ==
    /\ totalImagesCount = passes * PageFrames(1)
    /\ globalImagesRemaining = passes * PageFrames(1) - SettledFrom(1)
    /\ \A k \in 1..Len(loaders) : ~Lacks(page[loaders[k].section])
    /\ \A s \in 1..Len(page) : \A q \in 1..passes :
          ~Lacks(page[s]) =>
              Cardinality({ k \in 1..Len(loaders) :
                  loaders[k].section = s /\ loaders[k].pass = q }) = 1

\* C8 witness: the first section has a frame count but no canvas and is
\* skipped, the second section of the same pass is initialized
SkippedThenInitialized ==
    /\ Len(page) = 2
    /\ ~page[1].canvas /\ page[1].frames > 0
    /\ ~Lacks(page[2])
    /\ passes = 1
    /\ Len(loaders) = 1
    /\ loaders[1].section = 2
    /\ totalImagesCount = page[2].frames

\* The blocks bound so far, as <<loader, block>> pairs
BoundBlocks ==
    { kb \in (1..Len(loaders)) \X (1..MaxBlocks) : kb[2] <= Len(loaders[kb[1]].blocks) }

\* What the canvas shows after a render of frame f of loader record l
Drawn(l, f) ==
    IF f \in 0..(Len(l.images) - 1) /\ l.images[f + 1].state = "loaded" THEN f ELSE Blank

AutoplayStateOk(blk) ==
    (blk.autoplay /\ blk.scrollY <= 1) =>
        /\ blk.mode \in {"tween", "done"}
        /\ blk.progress = 0 => (blk.frame = 0 /\ blk.renders = 0)
        /\ blk.mode = "done" <=> blk.progress = ProgressSteps
        /\ blk.mode = "done" => blk.frame = blk.end - 1

AutoplayStepOk(l, old, new, sh) ==
    (old.autoplay /\ old.scrollY <= 1 /\ new # old) =>
        /\ new.frame >= old.frame
        /\ new.renders = old.renders + 1
        /\ sh = Drawn(l, new.frame)

\* C9: an autoplay block bound while scrollY <= 1 starts at frame 0 with a
\* tween; every update of it leaves a frame not below the one before and
\* renders that frame, and when the tween is complete the frame is end - 1.
AutoplayTweenRuns ==
    /\ [](\A kb \in BoundBlocks : AutoplayStateOk(loaders[kb[1]].blocks[kb[2]]))
    /\ [][\A kb \in BoundBlocks :
            AutoplayStepOk(loaders[kb[1]], loaders[kb[1]].blocks[kb[2]],
                           loaders'[kb[1]].blocks[kb[2]],
                           shown'[loaders[kb[1]].section])]_vars

\* C9 witness: a tween bound at scrollY 1 is complete after two updates and
\* stands at end - 1 > 0, a frame that is drawn
TweenCompleteAtEnd ==
    \E kb \in BoundBlocks :
        LET blk == loaders[kb[1]].blocks[kb[2]] IN
        /\ blk.autoplay /\ blk.scrollY = 1
        /\ blk.mode = "done"
        /\ blk.renders = 2
        /\ blk.frame = blk.end - 1
        /\ blk.frame > 0
        /\ shown[loaders[kb[1]].section] = blk.frame

\* C10: an autoplay block bound while scrollY > 1 has no tween: its frame
\* is end - 1 from the binding on and exactly one render was made for it.
AutoplayPastTopIsFinal ==
    \A kb \in BoundBlocks :
        LET blk == loaders[kb[1]].blocks[kb[2]] IN
        (blk.autoplay /\ blk.scrollY > 1) =>
            /\ blk.mode = "final"
            /\ blk.frame = blk.end - 1
            /\ blk.renders = 1
            /\ blk.progress = 0

\* C10 witness: an autoplay block bound at scrollY 50 stands at its final
\* frame, a valid one, after its single render
FinalFrameRenderedOnce ==
    \E kb \in BoundBlocks :
        LET blk == loaders[kb[1]].blocks[kb[2]] IN
        /\ blk.autoplay /\ blk.scrollY = 50
        /\ blk.mode = "final"
        /\ blk.renders = 1
        /\ blk.frame = loaders[kb[1]].frameCount - 1
        /\ loaders[kb[1]].listener

\* C11 as stated: a window resize event that follows a section's ready
\* signal leaves the section's canvas with its parent's current box and
\* with the default frame 0 as the frame drawn last.
ResizeFitsCanvasToParent ==
    [][box' # box =>
          \A k \in 1..Len(loaders) :
              loaders[k].ready >= 1 =>
                  /\ canvasBox'[loaders[k].section] = box'
                  /\ shown'[loaders[k].section] = Drawn(loaders[k], 0)]_vars

\* C12 as stated, the moment of firing: when the resize notification fires,
\* every image across the page has settled (globalImagesRemaining = 0).
ResizeFiresWhenAllSettled ==
    [][resizeCalls' > resizeCalls =>
          /\ globalImagesRemaining = 0
          /\ \A k \in 1..Len(loaders) :
                SettledCount(loaders[k]) = Len(loaders[k].images)]_vars

\* C13: every image URL of every Loader, of the first initialization and of
\* every later one, carries the variant of the viewport width read at script
\* load (desktop from 768 on, mobile below), whichever media query matches
\* now; two Loaders of one section request the same URLs.
VariantFixedAtScriptLoad ==
    /\ \A k \in 1..Len(loaders) : \A i \in 1..Len(loaders[k].images) :
          loaders[k].images[i].src.device =
              IF viewportWidth >= 768 THEN "desktop" ELSE "mobile"
    /\ \A k, j \in 1..Len(loaders) :
          loaders[k].section = loaders[j].section =>
              \A i \in 1..Len(loaders[k].images) :
                  loaders[k].images[i].src = loaders[j].images[i].src

\* C13 witness: the page was loaded at desktop width, the viewport has
\* crossed to the max-width query, and the section's second Loader requests
\* the desktop URLs again
ReinitializedWithFirstVariant ==
    /\ viewportWidth = 768
    /\ mq = "max"
    /\ passes = 2
    /\ \E k, j \in 1..Len(loaders) :
          /\ loaders[k].section = loaders[j].section
          /\ loaders[k].pass = 1 /\ loaders[j].pass = 2
          /\ loaders[j].images[1].src.device = "desktop"
          /\ loaders[j].images = loaders[k].images

\* C14 as stated: when a Loader's last block is an autoplay block bound
\* while scrollY > 1, the canvas shows that block's frame end - 1 when
\* initCanvasAnimations returns.
FinalFrameShownAfterBinding ==
    [][\A k \in 1..Len(loaders) :
          LET l == loaders'[k] IN
          (loaders[k].ready = 0 /\ l.ready = 1 /\ l.listener
                /\ Len(l.blocks) >= 1 /\ l.blocks[Len(l.blocks)].mode = "final")
              => shown'[l.section] = Drawn(l, l.blocks[Len(l.blocks)].end - 1)]_vars

\* Number of images of all the Loaders with neither event fired yet
RECURSIVE UnsettledFrom(_)
UnsettledFrom(k) ==
    IF k > Len(loaders) THEN 0
    ELSE (Len(loaders[k].images) - SettledCount(loaders[k])) + UnsettledFrom(k + 1)

\* C15: with positive integer frame counts, across any number of
\* initialization passes, globalImagesRemaining is the number of created
\* images that have fired neither load nor error, and it lies between 0 and
\* totalImagesCount.
RemainingCountsUnsettledImages ==
    /\ globalImagesRemaining = UnsettledFrom(1)
    /\ 0 <= globalImagesRemaining
    /\ globalImagesRemaining <= totalImagesCount

\* C15 witness: a second pass has started while an image of the first is
\* unsettled; some images have settled and some have not
SecondPassWhileLoading ==
    /\ passes = 2
    /\ \E k \in 1..Len(loaders) :
          loaders[k].pass = 1 /\ SettledCount(loaders[k]) < loaders[k].frameCount
    /\ SettledFrom(1) >= 1
    /\ globalImagesRemaining >= 2
    /\ globalImagesRemaining < totalImagesCount

\* C16: in every Loader instance whose index-0 image has loaded, the first
\* frame had been rendered when initCanvasAnimations was called, whichever
\* image settled last; and before that call the instance has no bound block
\* and no resize listener, so nothing of it renders on scroll, autoplay or
\* resize.
FirstFrameBeforeReady ==
    \A k \in 1..Len(loaders) :
        LET l == loaders[k] IN
        /\ (l.ready >= 1 /\ l.images[1].state = "loaded") => l.firstAtReady = 1
        /\ l.ready = 0 => (l.blocks = << >> /\ ~l.listener /\ l.firstAtReady = 0)

\* C16 witness: a Loader of two frames, both loaded, has bound a block on
\* its ready signal after the first frame was rendered
ReadyWithFirstFrameRendered ==
    \E k \in 1..Len(loaders) :
        /\ loaders[k].frameCount = 2
        /\ loaders[k].images[1].state = "loaded"
        /\ loaders[k].images[2].state = "loaded"
        /\ loaders[k].ready = 1
        /\ loaders[k].firstAtReady = 1
        /\ Len(loaders[k].blocks) = 1

\* Some Loader other than k still has an image with no event fired
OthersPending(k) ==
    \E j \in 1..Len(loaders) :
        j # k /\ SettledCount(loaders[j]) < Len(loaders[j].images)

\* C17: a step changes at most one Loader instance, and a completion adds
\* one to that instance's loaded-count and takes one from the global
\* counter; an instance whose own N images have settled is ready while
\* images of other instances (of other sections or of another
\* initialization of its section) are pending.
LoadersIndependent ==
    /\ [](\A k \in 1..Len(loaders) :
            (SettledCount(loaders[k]) = loaders[k].frameCount /\ OthersPending(k))
                => loaders[k].ready = 1)
    /\ [][\A k \in 1..Len(loaders) :
            loaders'[k] # loaders[k] =>
                /\ \A j \in 1..Len(loaders) : j # k => loaders'[j] = loaders[j]
                /\ loaders'[k].imagesLoaded # loaders[k].imagesLoaded =>
                      /\ loaders'[k].imagesLoaded = loaders[k].imagesLoaded + 1
                      /\ globalImagesRemaining' = globalImagesRemaining - 1]_vars

\* C17 witness: the second initialization of a section is ready while the
\* first initialization of the same section still waits for an image
SecondInitReadyBeforeFirst ==
    \E k, j \in 1..Len(loaders) :
        /\ loaders[k].section = loaders[j].section
        /\ loaders[k].pass = 1 /\ loaders[j].pass = 2
        /\ loaders[j].ready = 1
        /\ loaders[k].ready = 0
        /\ loaders[k].imagesLoaded = 1

RECURSIVE ListenersFrom(_)
ListenersFrom(k) ==
    IF k > Len(loaders) THEN 0
    ELSE (IF loaders[k].listener THEN 1 ELSE 0) + ListenersFrom(k + 1)

RECURSIVE ReadySignalsFrom(_)
ReadySignalsFrom(k) ==
    IF k > Len(loaders) THEN 0 ELSE loaders[k].ready + ReadySignalsFrom(k + 1)

\* C18 as stated: in every reachable state the number of registered window
\* resize handlers equals the number of ready signals fired so far.
HandlersEqualReadySignals ==
    ListenersFrom(1) = ReadySignalsFrom(1)

====
